---- MODULE Spec2Model ----
(***************************************************************************)
(* A model of yuyo's reaction handling (src/yuyo/reactions.py): one        *)
(* ReactionPaginator (a ReactionHandler) registered in one ReactionClient, *)
(* reaction events delivered concurrently as asyncio tasks, the client's   *)
(* expiry sweep and the platform calls the paginator makes; and of its     *)
(* component handling (src/yuyo/components.py): one ComponentExecutor      *)
(* registered in one ComponentClient, an interaction delivered over REST   *)
(* or the gateway, and the calls its listener makes on the Context.        *)
(*                                                                         *)
(* asyncio is cooperative: the code between two awaits that suspend runs   *)
(* as one step.  Every action below is one such stretch of code.           *)
(***************************************************************************)
EXTENDS Integers, Sequences, FiniteSets, TLC

\* ---------------------------------------------------------------- bounds

\* Event deliveries that can be in flight at the same time.
NTasks == 2
\* The clock stops at MaxTime.
MaxTime == 2
\* The longest source sequence of pages.
NPages == 3
\* The close() calls of one handler that are counted.
MaxCloses == 2
\* The calls a listener makes on its Context.
NCalls == 3
\* max_retries as given to create_message, open and close (5 by default).
MaxRetries == 3

\* ------------------------------------------------------------- constants

\* ReactionHandler's timeout (30 seconds by default), in ticks of the model's clock.
Timeout == 1

\* max_backoff of create_message, open and close: 2.0 seconds by default.
MaxBackoff == 2

\* The waits a rate-limit response asks for (retry_after): one within max_backoff,
\* one beyond it.
Waits == {1, 3}

\* What a call to the platform comes back with.
Failures == {"NotFoundError", "ForbiddenError", "RateLimitedError", "InternalServerError"}
Outcomes == {"ok"} \cup Failures

Tasks == 1..NTasks

\* The messages of a client with several handlers, and the handlers: h1 and h2 are
\* expired, h3 is not; close() of h1 awaits something, close() of the others
\* returns without suspending (as ReactionHandler.close and ReactionPaginator.close
\* without remove_reactions do).
Ids == {"m1", "m2"}
Handlers == {"h1", "h2", "h3"}
ExpiredHandlers == {"h1", "h2"}
Suspending == {"h1"}
NoTask == 0

\* The trigger keys of the paginator's callbacks.
LEFT_DOUBLE_TRIANGLE == "first"
LEFT_TRIANGLE == "previous"
STOP_SQUARE == "stop"
RIGHT_TRIANGLE == "next"
RIGHT_DOUBLE_TRIANGLE == "last"
\* An emoji no callback is registered for.
OTHER_EMOJI == "other"

\* self._triggers: the paginator is built with all five triggers.
triggers ==
    {LEFT_DOUBLE_TRIANGLE, LEFT_TRIANGLE, STOP_SQUARE, RIGHT_TRIANGLE, RIGHT_DOUBLE_TRIANGLE}

\* self._callbacks as set up by ReactionPaginator.__init__: the keys with a callback.
callbacks == triggers

Emojis == triggers \cup {OTHER_EMOJI}

\* The users: u1 is the paginator's author, u2 is another user, bot is the bot itself.
Users == {"u1", "u2", "bot"}
BotUser == "bot"

\* The pages a source can yield, in order.
AllPages == <<"a", "b", "c", "d", "e", "f">>
Pages == SubSeq(AllPages, 1, NPages)

\* The message the paginator creates, and the absence of one.
Msg == "m1"
None == "None"
NoPage == "-"

\* The calls on the Context, and no call.
Calls == 1..NCalls
NoCall == 0

\* The response-producing operations of Context.
Kinds ==
    {"defer", "create_initial_response", "respond", "edit_initial_response",
     "create_followup"}

\* interaction.custom_id: one id with a callback in the executor, one without.
CustomIds == {"known", "unknown"}

\* ComponentExecutor._id_to_callback: the custom ids with a callback.
id_to_callback == {"known"}

\* Context._last_response_id before any follow-up: None.
NoResponseId == 0

\* response_future of a Context made without a future (gateway delivery).
NoFuture == "none"

VARIABLES
    now,             \* the clock (datetime.now)
    source,          \* the pages the iterator yields
    iterator,        \* self._iterator: how many pages were pulled from it
    buffer,          \* self._buffer
    index,           \* self._index
    message,         \* self._message
    last_triggered,  \* self._last_triggered
    lock,            \* self._lock: the task that holds it, or NoTask
    authors,         \* self._authors
    listeners,       \* ReactionClient._listeners: the message ids with a handler
    blacklist,       \* ReactionClient.blacklist
    gc_task,         \* ReactionClient._gc_task is not None
    client,          \* where ReactionClient.open is
    start,           \* where create_message and add_handler are
    tasks,           \* the event deliveries: ReactionClient._on_reaction_event
    close_task,      \* a close() spawned by on_reaction_event has not run yet
    delete_task,     \* a _delete_message spawned by _on_disable has not run yet
    displayed,       \* the content of the message on the platform
    deleted,         \* the message was deleted on the platform
    closed,          \* history: a close() of the handler has completed
    deletes,         \* history: the _delete_message tasks spawned so far
    closes,          \* history: the close() calls made by the sweep and by on_reaction_event
    last,            \* history: the event delivery that ended last
    nav,             \* history: the navigation steps completed so far
    retry,           \* the Backoff of the retry loop that is running: the times it yielded
    emoji,           \* `for emoji_name in self._triggers`: the triggers the loop has passed
    fault,           \* the error create_message, open or close raised to its caller
    close_pc,        \* where a close(remove_reactions=True) of the paginator is
    removals,        \* history: the close() calls that went on to remove reactions
    reclosed,        \* history: close() has been called on an unbound paginator
    removal,         \* history: how the last remove_handler ended
    entries,         \* ReactionClient._listeners with several messages: id -> handler
    sweep,           \* ReactionClient._gc: where it is, and the rest of its tuple of items
    executors,       \* ComponentClient._executors: the message ids with an executor
    execution,       \* on_rest_request's execution_task: executor.execute(...)
    request,         \* history: the interaction delivered and how its delivery ended
    listener,        \* the listener task that execute() spawns with the Context
    listener2,       \* the listener task of a second interaction for the message
    has_responded,       \* Context._has_responded
    has_been_deferred,   \* Context._has_been_deferred
    last_response_id,    \* Context._last_response_id
    response_future,     \* Context._response_future: its state or result
    response_lock,       \* Context._response_lock: the call that holds it, or NoCall
    calls,           \* the calls the listener makes on the Context
    platform,        \* history: the calls made to the platform so far
    changed          \* history: the call that last wrote the Context's state

\* The state of the paginator's retried calls in create_message, open and close, and
\* of remove_handler.
outboundVars == <<retry, emoji, fault, close_pc, removals, reclosed, removal>>

\* The registry and the sweep of a client with handlers for several messages.
sweepVars == <<entries, sweep>>

reactionVars ==
    <<now, source, iterator, buffer, index, message, last_triggered, lock, authors,
      listeners, blacklist, gc_task, client, start, tasks, close_task, delete_task,
      displayed, deleted, closed, deletes, closes, last, nav, outboundVars, sweepVars>>

clientVars == <<executors, execution, request, listener, listener2>>

contextVars ==
    <<has_responded, has_been_deferred, last_response_id, response_future,
      response_lock, calls, platform, changed>>

componentVars == <<clientVars, contextVars>>

vars == <<reactionVars, componentVars>>

\* ------------------------------------------------------------ the handler

\* ReactionHandler.expired
Expired == Timeout < now - last_triggered

\* Rejected without its check of the message: only the authors are checked.
RejectedUnlessAuthor(user) == authors # {} /\ user \notin authors

\* Rejected without its check of the authors: only the message is checked.
RejectedUnbound(user) == message = None

\* on_reaction_event's second check: the handler is unbound or the user is no author.
Rejected(user) == message = None \/ (authors # {} /\ user \notin authors)

\* self._callbacks.get(emoji_identifier) finds nothing.
NoCallback(key) == key \notin callbacks

\* Unlock of a lock that stays with the event that held it.
UnlockNever(holder) == holder

\* `async with self._lock` is left, by a return or by an exception: the lock is free.
Unlock(holder) == NoTask

\* Locked with a lock that is made anew for every event: nobody ever waits.
LockedNever == FALSE

\* async with self._lock has to wait.
Locked == lock # NoTask

\* Pop that leaves the entry in place.
PopNothing(ls, id) == ls

\* _on_reaction_event: self._listeners.pop(event.message_id, None)
Pop(ls, id) == ls \ {id}

\* Del that leaves the entry in place.
DelNothing(ls, id) == ls

\* _gc: del self._listeners[listener_id]
Del(ls, id) == ls \ {id}

\* NoListener for a client that finds a handler for every message.
NoListenerNever(id) == FALSE

\* _on_reaction_event: self._listeners.get(event.message_id) finds no handler.
NoListener(id) == id \notin listeners

\* Blacklisted for a client that drops nobody's reactions.
BlacklistedNobody(user) == FALSE

\* _on_reaction_event: event.user_id in self.blacklist
Blacklisted(user) == user \in blacklist

\* Clear that keeps the entries.
ClearNothing(ls) == ls

\* ReactionClient.close: self._listeners = {}
Clear(ls) == {}

\* ReactionClient.close has run self._gc_task.cancel().
Cancelled == client \in {"closing", "handlers closed", "stopped"}

\* One more close() call of the handler, counted up to MaxCloses.
CountClose(n) == IF n < MaxCloses THEN n + 1 ELSE n

\* self._buffer[i], with Python's 0-based index.
Entry(buf, i) == buf[i + 1]

\* Extend that replaces the buffer by the pages pulled.
ExtendReplaces(buf, pulled) == pulled

\* _on_last: self._buffer.extend(...) with the pages pulled from the iterator.
Extend(buf, pulled) == buf \o pulled

\* LastIndex off by one: len(self._buffer).
LastIndexLen(buf) == Len(buf)

\* _on_last: self._index = len(self._buffer) - 1
LastIndex(buf) == Len(buf) - 1

\* pagination.seek_iterator(iterator, default=...): the next item of the iterator
\* that has yielded `pos` items of `seq`, or `default` when it is exhausted.
SeekIterator(seq, pos, default) == IF pos < Len(seq) THEN seq[pos + 1] ELSE default

\* backoff.Backoff() built without max_retries: `async for _ in retry` never ends
\* by itself.
BackoffGivesUp == FALSE

\* Buffered for a _get_next_entry that never looks into the buffer.
BufferedNever == FALSE

\* backoff.Backoff(max_retries=n): after a reset, `async for _ in retry` runs its
\* body at most n times; `yielded` counts the times it has.
BackoffYields(yielded, n) == yielded < n

\* RetryLimit for a Backoff that is given max_retries itself.
RetryLimitFull == MaxRetries

\* create_message and open: backoff.Backoff(max_retries=max_retries - 1, ...)
RetryLimit == MaxRetries - 1

\* Bound for a close() that does not look at self._message.
BoundAlways == TRUE

\* ReactionPaginator.close: `if message := self._message`
Bound == message # None

\* _get_next_entry: the next entry is already in the buffer.
Buffered == Len(buffer) >= index + 2

\* ReactionPaginator.__init__: self._index
InitialIndex == 0

\* An event delivery that is not running.
IdleTask ==
    [pc |-> "idle", user |-> "u1", key |-> OTHER_EMOJI, content |-> NoPage,
     pulled |-> <<>>, cb |-> "none", after_close |-> FALSE]

\* What is remembered of an event delivery that ended: its event, how it ended
\* (result), whether its callback was started and found the handler bound (cb) and
\* whether it began after a close() of the handler.
Ended(ev, result) ==
    [user |-> ev.user, key |-> ev.key, result |-> result, cb |-> ev.cb,
     after_close |-> ev.after_close]

\* The navigation history after the callback of `key` completed; `shown` says that
\* the callback ran its course (it was not cut short by an unbound message or a failed
\* edit).  While the completed steps are m steps forward followed by n steps back,
\* with m < Len(source) and n <= m, nav.shape is "forward" (n = 0) or "back" and
\* nav.page is m - n; after any other step nav.shape is "other".
NavAfter(key, shown) ==
    IF ~shown \/ nav.shape = "other" THEN [nav EXCEPT !.shape = "other"]
    ELSE IF key = RIGHT_TRIANGLE
        THEN IF nav.shape = "forward" /\ nav.page + 1 < Len(source)
            THEN [nav EXCEPT !.page = @ + 1]
            ELSE [nav EXCEPT !.shape = "other"]
    ELSE IF key = LEFT_TRIANGLE
        THEN IF nav.page > 0
            THEN [nav EXCEPT !.page = @ - 1, !.shape = "back"]
            ELSE [nav EXCEPT !.shape = "other"]
    ELSE [nav EXCEPT !.shape = "other"]

\* A call on the Context that was not made yet.
NewCall ==
    [kind |-> "none", pc |-> "new", route |-> "none", result |-> "none", valid |-> TRUE]

\* ComponentClient.__init__, and the fields Context.__init__ sets.
InitComponents ==
    /\ executors = {}
    /\ execution = [pc |-> "none", custom_id |-> "known"]
    /\ request = [path |-> "none", registered |-> FALSE, result |-> "none"]
    /\ listener = "none"
    /\ listener2 = "none"
    /\ has_responded = FALSE
    /\ has_been_deferred = FALSE
    /\ last_response_id = NoResponseId
    /\ response_future = NoFuture
    /\ response_lock = NoCall
    /\ calls = [o \in Calls |-> NewCall]
    /\ platform = [initial |-> 0, deferred |-> 0, edit |-> 0, followup |-> 0]
    /\ changed = [kind |-> "none", locked |-> TRUE]

Init ==
    /\ InitComponents
    /\ now = 0
    /\ source \in {SubSeq(Pages, 1, n) : n \in 0..NPages}
    /\ iterator = 0
    /\ buffer = <<>>
    /\ index = InitialIndex
    /\ message = None
    /\ last_triggered = 0
    /\ lock = NoTask
    /\ authors \in {{}, {"u1"}}
    /\ listeners = {}
    /\ blacklist = {}
    /\ gc_task = FALSE
    /\ client = "closed"
    /\ start = "new"
    /\ tasks = [t \in Tasks |-> IdleTask]
    /\ close_task = FALSE
    /\ delete_task = FALSE
    /\ displayed = NoPage
    /\ deleted = FALSE
    /\ closed = FALSE
    /\ deletes = 0
    /\ closes = 0
    /\ retry = 0
    /\ emoji = 0
    /\ fault = None
    /\ close_pc = "none"
    /\ removals = 0
    /\ reclosed = FALSE
    /\ removal = "none"
    /\ entries = [id \in Ids |-> None]
    /\ sweep = [pc |-> "sleep", todo |-> <<>>]
    /\ last = Ended(IdleTask, "none")
    /\ nav = [page |-> 0, shape |-> "forward"]

\* ------------------------------------------------------- callback endings

\* on_reaction_event line 350 and the end of async with: the callback returned.
CallbackReturns(t, ev, shown) ==
    /\ last_triggered' = now
    /\ lock' = Unlock(t)
    /\ listeners' = listeners
    /\ nav' = NavAfter(ev.key, shown)
    /\ tasks' = [tasks EXCEPT ![t] = IdleTask]
    /\ last' = Ended(ev, "ok")

\* The callback raised HandlerClosed: async with releases the lock and
\* ReactionClient._on_reaction_event pops the entry.
CallbackRaises(t, ev) ==
    /\ last_triggered' = last_triggered
    /\ lock' = Unlock(t)
    /\ listeners' = Pop(listeners, Msg)
    /\ nav' = NavAfter(ev.key, FALSE)
    /\ tasks' = [tasks EXCEPT ![t] = IdleTask]
    /\ last' = Ended(ev, "HandlerClosed")

\* The callback suspends at `pc`, holding the lock.
CallbackSuspends(t, ev, pc, content) ==
    /\ last_triggered' = last_triggered
    /\ lock' = t
    /\ listeners' = listeners
    /\ nav' = nav
    /\ tasks' = [tasks EXCEPT ![t] = [ev EXCEPT !.pc = pc, !.content = content]]
    /\ last' = last

\* _edit_message up to its first await: leave the loop when unbound, else send the edit.
EditMessage(t, ev, content) ==
    IF message = None
        THEN CallbackReturns(t, ev, FALSE)
        ELSE CallbackSuspends(t, ev, "edit", content)

\* -------------------------------------------------------------- callbacks

\* _on_first
OnFirst(t, ev) ==
    /\ UNCHANGED <<iterator, buffer, index, message, delete_task, deletes>>
    /\ IF index # 0
        THEN EditMessage(t, ev, Entry(buffer, 0))
        ELSE CallbackReturns(t, ev, TRUE)

\* _on_previous
OnPrevious(t, ev) ==
    /\ UNCHANGED <<iterator, buffer, message, delete_task, deletes>>
    /\ IF index > 0
        THEN /\ index' = index - 1
             /\ EditMessage(t, ev, Entry(buffer, index - 1))
        ELSE /\ index' = index
             /\ CallbackReturns(t, ev, TRUE)

\* _on_disable
OnDisable(t, ev) ==
    /\ UNCHANGED <<iterator, buffer, index>>
    /\ IF message # None
        THEN message' = None /\ delete_task' = TRUE /\ deletes' = deletes + 1
        ELSE UNCHANGED <<message, delete_task, deletes>>
    /\ CallbackRaises(t, ev)

\* _on_next with _get_next_entry up to its await of seek_iterator
OnNext(t, ev) ==
    /\ UNCHANGED <<iterator, buffer, message, delete_task, deletes>>
    /\ IF Buffered
        THEN /\ index' = index + 1
             /\ EditMessage(t, ev, Entry(buffer, index + 1))
        ELSE /\ index' = index
             /\ CallbackSuspends(t, ev, "seek", NoPage)

\* _on_last up to the first page it awaits from the iterator
OnLast(t, ev) ==
    /\ UNCHANGED <<iterator, buffer, index, message, delete_task, deletes>>
    /\ CallbackSuspends(t, ev, "drain", NoPage)

\* await method(event), entered with the lock: the callback up to its first await.
RunCallback(t, ev0) ==
    LET ev == [ev0 EXCEPT !.cb = IF message = None THEN "unbound" ELSE "bound"]
    IN  /\ UNCHANGED <<close_task, displayed>>
        /\ CASE ev.key = LEFT_DOUBLE_TRIANGLE -> OnFirst(t, ev)
             [] ev.key = LEFT_TRIANGLE -> OnPrevious(t, ev)
             [] ev.key = STOP_SQUARE -> OnDisable(t, ev)
             [] ev.key = RIGHT_TRIANGLE -> OnNext(t, ev)
             [] ev.key = RIGHT_DOUBLE_TRIANGLE -> OnLast(t, ev)

\* The event is over without a callback: `result` says how.
Ends(t, ev, result) ==
    /\ tasks' = [tasks EXCEPT ![t] = IdleTask]
    /\ last' = Ended(ev, result)
    /\ UNCHANGED <<iterator, buffer, index, message, last_triggered, lock, listeners,
                   delete_task, deletes, displayed, nav>>

\* ReactionHandler.on_reaction_event up to its first await
OnReactionEvent(t, ev) ==
    IF Expired
        THEN \* asyncio.create_task(self.close()), then a bare raise with no active
             \* exception: a RuntimeError, which _on_reaction_event does not catch.
             /\ close_task' = TRUE
             /\ Ends(t, ev, "RuntimeError")
    ELSE IF Rejected(ev.user) \/ NoCallback(ev.key)
        THEN /\ close_task' = close_task
             /\ Ends(t, ev, "ignored")
    ELSE IF Locked
        THEN /\ close_task' = close_task
             /\ tasks' = [tasks EXCEPT ![t] = [ev EXCEPT !.pc = "wait"]]
             /\ UNCHANGED <<iterator, buffer, index, message, last_triggered, lock,
                            listeners, delete_task, deletes, displayed, last, nav>>
    ELSE RunCallback(t, ev)

\* ReactionClient._on_reaction_event for a reaction on the paginator's message
Deliver(t, user, key) ==
    /\ UNCHANGED <<componentVars, outboundVars, sweepVars>>
    /\ client = "open"
    /\ tasks[t].pc = "idle"
    /\ UNCHANGED <<now, source, authors, blacklist, gc_task, client, start, deleted, closed, closes>>
    /\ LET ev == [IdleTask EXCEPT !.user = user, !.key = key, !.after_close = closed]
       IN  IF Blacklisted(user)
               THEN close_task' = close_task /\ Ends(t, ev, "blacklisted")
           ELSE IF NoListener(Msg)
               THEN close_task' = close_task /\ Ends(t, ev, "no handler")
           ELSE OnReactionEvent(t, ev)

\* async with self._lock: a waiting event gets the lock and runs its callback.
AcquireLock(t) ==
    /\ UNCHANGED <<componentVars, outboundVars, sweepVars>>
    /\ tasks[t].pc = "wait"
    /\ ~Locked
    /\ UNCHANGED <<now, source, authors, blacklist, gc_task, client, start, deleted, closed, closes>>
    /\ RunCallback(t, tasks[t])

\* _get_next_entry after seek_iterator: a page or None
Seek(t) ==
    /\ UNCHANGED <<componentVars, outboundVars, sweepVars>>
    /\ tasks[t].pc = "seek"
    /\ UNCHANGED <<now, source, authors, blacklist, gc_task, client, start, deleted, closed, closes,
                   close_task, displayed, message, delete_task, deletes>>
    /\ LET entry == SeekIterator(source, iterator, None)
       IN  IF entry # None
               THEN /\ iterator' = iterator + 1
                    /\ index' = index + 1
                    /\ buffer' = Append(buffer, entry)
                    /\ EditMessage(t, tasks[t], entry)
               ELSE /\ UNCHANGED <<iterator, index, buffer>>
                    /\ CallbackReturns(t, tasks[t], TRUE)

\* _on_last: the iterator yields one more page, or ends and the buffer is extended.
Drain(t) ==
    /\ UNCHANGED <<componentVars, outboundVars, sweepVars>>
    /\ tasks[t].pc = "drain"
    /\ UNCHANGED <<now, source, authors, blacklist, gc_task, client, start, deleted, closed, closes,
                   close_task, displayed, message, delete_task, deletes>>
    /\ IF SeekIterator(source, iterator, None) # None
        THEN /\ iterator' = iterator + 1
             /\ tasks' = [tasks EXCEPT ![t].pulled =
                             Append(@, SeekIterator(source, iterator, None))]
             /\ UNCHANGED <<index, buffer, last_triggered, lock, listeners, last, nav>>
        ELSE LET buf == Extend(buffer, tasks[t].pulled)
             IN  /\ iterator' = iterator
                 /\ buffer' = buf
                 /\ IF buf # <<>>
                     THEN /\ index' = LastIndex(buf)
                          /\ EditMessage(t, tasks[t], buf[Len(buf)])
                     ELSE /\ index' = index
                          /\ CallbackReturns(t, tasks[t], TRUE)

\* _edit_message: the edit went through.
EditOk(t) ==
    /\ UNCHANGED <<componentVars, outboundVars, sweepVars>>
    /\ tasks[t].pc = "edit"
    /\ ~deleted
    /\ displayed' = tasks[t].content
    /\ UNCHANGED <<now, source, authors, blacklist, gc_task, client, start, deleted, closed, closes,
                   close_task, message, delete_task, deletes, iterator, index, buffer>>
    /\ CallbackReturns(t, tasks[t], TRUE)

\* _edit_message: NotFoundError or ForbiddenError, raised on as HandlerClosed.
EditFails(t) ==
    /\ UNCHANGED <<componentVars, outboundVars, sweepVars>>
    /\ tasks[t].pc = "edit"
    /\ UNCHANGED <<now, source, authors, blacklist, gc_task, client, start, deleted, closed, closes,
                   close_task, message, delete_task, deletes, iterator, index, buffer, displayed>>
    /\ CallbackRaises(t, tasks[t])

\* _edit_message: InternalServerError or RateLimitedError, the backoff sleeps.
EditRetries(t) ==
    /\ UNCHANGED <<componentVars, outboundVars, sweepVars>>
    /\ tasks[t].pc = "edit"
    /\ ~deleted
    /\ UNCHANGED <<now, source, authors, blacklist, gc_task, client, start, deleted, closed, closes,
                   close_task, message, delete_task, deletes, iterator, index, buffer, displayed>>
    /\ CallbackSuspends(t, tasks[t], "backoff", tasks[t].content)

\* _edit_message: the next round of the loop after the backoff's sleep.
Backoff(t) ==
    /\ UNCHANGED <<componentVars, outboundVars, sweepVars>>
    /\ tasks[t].pc = "backoff"
    /\ UNCHANGED <<now, source, authors, blacklist, gc_task, client, start, deleted, closed, closes,
                   close_task, message, delete_task, deletes, iterator, index, buffer, displayed>>
    /\ IF BackoffGivesUp
        THEN CallbackReturns(t, tasks[t], FALSE)
        ELSE EditMessage(t, tasks[t], tasks[t].content)

\* ------------------------------------------------------------ the start

handlerVars ==
    <<iterator, buffer, index, message, last_triggered, lock>>

\* NoPages for a create_message that takes whatever it got for a page.
NoPagesNever(entry) == FALSE

\* create_message: `if entry is None`, the iterator yielded no page.
NoPages(entry) == entry = None

\* create_message up to its await of _get_next_entry
CreateMessage ==
    /\ UNCHANGED <<componentVars, outboundVars, sweepVars>>
    /\ start = "new"
    /\ message = None
    /\ start' = "seek"
    /\ UNCHANGED <<now, source, handlerVars, authors, listeners, blacklist, gc_task, client,
                   tasks, close_task, delete_task, deletes, displayed, deleted, closed, closes, last, nav>>

\* create_message: _get_next_entry pulls the first page, or the iterator is empty
\* and create_message raises ValueError.
CreateMessageEntry ==
    /\ UNCHANGED <<componentVars, sweepVars, retry, emoji, close_pc, removals, reclosed, removal>>
    /\ start = "seek"
    /\ IF Buffered
        THEN /\ index' = index + 1
             /\ UNCHANGED <<iterator, buffer, fault>>
             /\ start' = "create"
        ELSE LET entry == SeekIterator(source, iterator, None)
             IN  IF ~NoPages(entry)
                     THEN /\ iterator' = iterator + 1
                          /\ index' = index + 1
                          /\ buffer' = Append(buffer, entry)
                          /\ start' = "create"
                          /\ fault' = fault
                     ELSE /\ UNCHANGED <<iterator, index, buffer>>
                          /\ start' = "failed"
                          /\ fault' = "ValueError"
    /\ UNCHANGED <<now, source, message, last_triggered, lock, authors, listeners, blacklist,
                   gc_task, client, tasks, close_task, delete_task, deletes, displayed, deleted,
                   closed, closes, last, nav>>

\* create_message: rest.create_message sends the first page and open() binds the message.
CreateMessageOpen ==
    /\ UNCHANGED <<componentVars, outboundVars, sweepVars>>
    /\ start = "create"
    /\ displayed' = buffer[Len(buffer)]
    /\ message' = Msg
    /\ start' = "opened"
    /\ UNCHANGED <<now, source, iterator, buffer, index, last_triggered, lock, authors,
                   listeners, blacklist, gc_task, client, tasks, close_task, delete_task, deletes,
                   deleted, closed, closes, last, nav>>

\* create_message or open raises `error` to its caller.
StartFails(error) ==
    /\ start' = "failed"
    /\ fault' = error
    /\ retry' = retry + 1

\* create_message: one attempt of rest.create_message, inside `async for _ in retry`
\* while the Backoff yields and after it (the loop's else) when it is exhausted.
\* When the message is created, open() binds it and starts to add the reactions.
CreateMessageTry(outcome, wait) ==
    /\ start = "create"
    /\ UNCHANGED <<now, source, iterator, buffer, index, last_triggered, lock, authors,
                   listeners, blacklist, gc_task, client, tasks, close_task, delete_task,
                   deletes, deleted, closed, closes, last, nav, close_pc, removals, reclosed,
                   removal, componentVars, sweepVars>>
    /\ IF outcome = "ok"
        THEN /\ displayed' = buffer[Len(buffer)]
             /\ message' = Msg
             /\ start' = "react"
             /\ retry' = 0
             /\ UNCHANGED <<emoji, fault>>
        ELSE /\ UNCHANGED <<displayed, message, emoji>>
             /\ IF /\ BackoffYields(retry, RetryLimit)
                   /\ \/ outcome = "InternalServerError"
                      \/ outcome = "RateLimitedError" /\ ~(wait > MaxBackoff)
                 THEN retry' = retry + 1 /\ UNCHANGED <<start, fault>>
                 ELSE StartFails(outcome)

\* open: one attempt of message.add_reaction for the trigger the loop is at, inside
\* `async for _ in retry` while the Backoff yields and after it (the loop's else)
\* when it is exhausted.
AddReaction(outcome, wait) ==
    /\ start = "react"
    /\ UNCHANGED <<now, source, iterator, buffer, index, last_triggered, lock, authors,
                   listeners, blacklist, gc_task, client, tasks, close_task, delete_task,
                   deletes, displayed, deleted, closed, closes, last, nav, close_pc,
                   removals, reclosed, removal, componentVars, sweepVars>>
    /\ IF outcome = "ok"
        THEN \* break, or the end of the loop's else: on to the next trigger
             /\ emoji' = emoji + 1
             /\ retry' = 0
             /\ start' = IF emoji + 1 = Cardinality(triggers) THEN "opened" ELSE "react"
             /\ UNCHANGED <<message, fault>>
        ELSE IF ~BackoffYields(retry, RetryLimit)
            THEN \* the loop's else: the call is not in a try
                 /\ StartFails(outcome)
                 /\ UNCHANGED <<message, emoji>>
        ELSE IF outcome = "NotFoundError"
            THEN /\ message' = None
                 /\ StartFails(outcome)
                 /\ emoji' = emoji
        ELSE IF outcome = "ForbiddenError"
            THEN \* return: open is over, without the reactions
                 /\ start' = "opened"
                 /\ retry' = retry + 1
                 /\ UNCHANGED <<message, emoji, fault>>
        ELSE IF outcome = "RateLimitedError" /\ wait > MaxBackoff
            THEN /\ StartFails(outcome)
                 /\ UNCHANGED <<message, emoji>>
        ELSE \* set_next_backoff or continue: the next round of the loop
             /\ retry' = retry + 1
             /\ UNCHANGED <<message, emoji, start, fault>>

\* ReactionPaginator.close(remove_reactions=True) up to its first await: nothing
\* when unbound, else it unbinds and starts to remove the reactions.
CloseRemoving ==
    /\ start \in {"opened", "added"}
    /\ UNCHANGED <<now, source, iterator, buffer, index, last_triggered, lock, authors,
                   listeners, blacklist, gc_task, client, start, tasks, close_task,
                   delete_task, deletes, displayed, deleted, closes, last, nav, fault,
                   removal, componentVars, sweepVars>>
    /\ closed' = TRUE
    /\ IF Bound
        THEN /\ message' = None
             /\ removals' = removals + 1
             /\ reclosed' = reclosed
             /\ close_pc' = "remove"
             /\ retry' = 0
             /\ emoji' = 0
        ELSE /\ reclosed' = TRUE
             /\ UNCHANGED <<message, removals, close_pc, retry, emoji>>

\* close: one attempt of message.remove_reaction for the trigger the loop is at.
\* NotFoundError and ForbiddenError end close; a rate limit of any wait and a server
\* error go to the next round of the Backoff, and when that is exhausted the loop
\* goes on to the next trigger.
RemoveReaction(outcome, wait) ==
    /\ close_pc = "remove"
    /\ UNCHANGED <<now, source, handlerVars, authors, listeners, blacklist, gc_task, client,
                   start, tasks, close_task, delete_task, deletes, displayed, deleted,
                   closed, closes, last, nav, fault, removals, reclosed, removal, componentVars, sweepVars>>
    /\ IF outcome \in {"NotFoundError", "ForbiddenError"}
        THEN close_pc' = "done" /\ retry' = retry + 1 /\ emoji' = emoji
        ELSE IF outcome = "ok" \/ ~BackoffYields(retry + 1, MaxRetries)
            THEN /\ emoji' = emoji + 1
                 /\ retry' = 0
                 /\ close_pc' = IF emoji + 1 = Cardinality(triggers) THEN "done" ELSE "remove"
            ELSE /\ retry' = retry + 1
                 /\ UNCHANGED <<emoji, close_pc>>

\* ReactionClient.add_handler
AddHandler ==
    /\ UNCHANGED <<componentVars, outboundVars, sweepVars>>
    /\ start = "opened"
    /\ listeners' = listeners \cup {Msg}
    /\ start' = "added"
    /\ UNCHANGED <<now, source, handlerVars, authors, blacklist, gc_task, client, tasks,
                   close_task, delete_task, deletes, displayed, deleted, closed, closes, last, nav>>

\* ------------------------------------------------------------ the client

\* ReactionClient.is_closed
IsClosed == ~gc_task

\* ReactionClient.open up to its await of fetch_my_user: nothing when a sweep task
\* is set.
ClientOpen ==
    /\ UNCHANGED <<componentVars, outboundVars, sweepVars>>
    /\ client \in {"closed", "stopped"}
    /\ IsClosed
    /\ gc_task' = TRUE
    /\ client' = "opening"
    /\ UNCHANGED <<now, source, handlerVars, authors, listeners, blacklist, start, tasks,
                   close_task, delete_task, deletes, displayed, deleted, closed, closes, last, nav>>

\* ReactionClient.open: the bot's id joins the blacklist and the client subscribes.
ClientSubscribe ==
    /\ UNCHANGED <<componentVars, outboundVars, sweepVars>>
    /\ client = "opening"
    /\ blacklist' = blacklist \cup {BotUser}
    /\ client' = "open"
    /\ UNCHANGED <<now, source, handlerVars, authors, listeners, gc_task, start, tasks,
                   close_task, delete_task, deletes, displayed, deleted, closed, closes, last, nav>>

\* ReactionClient._gc: one round of the sweep that finds the handler expired.
\* listener.close() with remove_reactions=False does not suspend.
Gc ==
    /\ UNCHANGED <<componentVars, outboundVars, sweepVars>>
    /\ gc_task
    /\ ~Cancelled
    /\ Msg \in listeners
    /\ Expired
    /\ listeners' = Del(listeners, Msg)
    /\ message' = None
    /\ closed' = TRUE
    /\ closes' = CountClose(closes)
    /\ UNCHANGED <<now, source, iterator, buffer, index, last_triggered, lock, authors,
                   blacklist, gc_task, client, start, tasks, close_task, delete_task, deletes,
                   displayed, deleted, last, nav>>

\* tuple(self._listeners.items()): the items of the registry, in an order in which
\* they can have been inserted.
Items(reg) ==
    LET present == {id \in Ids : reg[id] # None}
        orders == {o \in [1..Cardinality(present) -> present] :
                        \A i, j \in DOMAIN o : i # j => o[i] # o[j]}
    IN  {[i \in DOMAIN o |-> <<o[i], reg[o[i]]>>] : o \in orders}

\* _gc's test of one item of its tuple: the handler it holds is expired and its id
\* is in the registry.
Sweeps(reg, id, handler) == handler \in ExpiredHandlers /\ reg[id] # None

\* _gc's loop over its tuple of items from `todo` on, up to its next suspension:
\* the await of a close() that suspends, or the sleep after the last item.
RECURSIVE GcRun(_, _)
GcRun(reg, todo) ==
    IF todo = <<>>
        THEN [entries |-> reg, sweep |-> [pc |-> "sleep", todo |-> <<>>]]
    ELSE LET id == Head(todo)[1]
             handler == Head(todo)[2]
         IN  IF ~Sweeps(reg, id, handler)
                 THEN GcRun(reg, Tail(todo))
             ELSE IF handler \in Suspending
                 THEN [entries |-> [reg EXCEPT ![id] = None],
                       sweep |-> [pc |-> "close", todo |-> Tail(todo)]]
             ELSE GcRun([reg EXCEPT ![id] = None], Tail(todo))

\* The variables of the one paginator and its client.
paginatorVars ==
    <<now, source, handlerVars, authors, listeners, blacklist, gc_task, client, start,
      tasks, close_task, delete_task, displayed, deleted, closed, deletes, closes, last,
      nav, outboundVars>>

\* ReactionClient.add_handler for any message: the entry is set, over the one
\* that is there.
AddHandlerFor(id, handler) ==
    /\ entries[id] # handler
    /\ \A other \in Ids : entries[other] # handler
    /\ entries' = [entries EXCEPT ![id] = handler]
    /\ UNCHANGED <<sweep, paginatorVars, componentVars>>

\* _gc wakes from its sleep, takes the items of the registry and goes through them.
GcWakes ==
    /\ sweep.pc = "sleep"
    /\ \E items \in Items(entries) :
            /\ entries' = GcRun(entries, items).entries
            /\ sweep' = GcRun(entries, items).sweep
    /\ UNCHANGED <<paginatorVars, componentVars>>

\* The close() _gc awaits returns, and _gc goes on with the rest of its items.
GcResumes ==
    /\ sweep.pc = "close"
    /\ entries' = GcRun(entries, sweep.todo).entries
    /\ sweep' = GcRun(entries, sweep.todo).sweep
    /\ UNCHANGED <<paginatorVars, componentVars>>

\* ReactionClient.remove_handler: self._listeners.pop(...) without a default, a
\* KeyError when the message has no handler.
RemoveHandler ==
    /\ IF Msg \in listeners
        THEN listeners' = listeners \ {Msg} /\ removal' = "handler"
        ELSE listeners' = listeners /\ removal' = "KeyError"
    /\ UNCHANGED <<now, source, handlerVars, authors, blacklist, gc_task, client, start,
                   tasks, close_task, delete_task, deletes, displayed, deleted, closed,
                   closes, last, nav, retry, emoji, fault, close_pc, removals, reclosed,
                   componentVars, sweepVars>>

\* ReactionClient.close on the open client, up to its await of the gather of the
\* handlers' close(): it unsubscribes, cancels the sweep and clears the registry.
\* The gather of no handler is done at once and close returns.
ClientClose ==
    /\ client = "open"
    /\ gc_task
    /\ listeners' = Clear(listeners)
    /\ client' = IF listeners = {} THEN "stopped" ELSE "closing"
    /\ UNCHANGED <<now, source, handlerVars, authors, blacklist, gc_task, start, tasks,
                   close_task, delete_task, deletes, displayed, deleted, closed, closes,
                   last, nav, outboundVars, componentVars, sweepVars>>

\* ReactionClient.close: the task gather made of the handler's close() runs.
ClientCloseHandler ==
    /\ client = "closing"
    /\ client' = "handlers closed"
    /\ message' = None
    /\ closed' = TRUE
    /\ UNCHANGED <<now, source, iterator, buffer, index, last_triggered, lock, authors,
                   listeners, blacklist, gc_task, start, tasks, close_task, delete_task,
                   deletes, displayed, deleted, closes, last, nav, outboundVars,
                   componentVars, sweepVars>>

\* ReactionClient.close returns when the gather is done.
ClientCloseReturns ==
    /\ client = "handlers closed"
    /\ client' = "stopped"
    /\ UNCHANGED <<now, source, handlerVars, authors, listeners, blacklist, gc_task, start,
                   tasks, close_task, delete_task, deletes, displayed, deleted, closed,
                   closes, last, nav, outboundVars, componentVars, sweepVars>>

\* ------------------------------------------------------ the other tasks

\* ReactionPaginator.close(), called by the handler's owner
Close ==
    /\ UNCHANGED <<componentVars, outboundVars, sweepVars>>
    /\ start \in {"opened", "added"}
    /\ message' = None
    /\ closed' = TRUE
    /\ closes' = closes
    /\ UNCHANGED <<now, source, iterator, buffer, index, last_triggered, lock, authors,
                   listeners, blacklist, gc_task, client, start, tasks, close_task,
                   delete_task, deletes, displayed, deleted, last, nav>>

\* The close() that on_reaction_event spawned for an expired handler runs.
SpawnedClose ==
    /\ UNCHANGED <<componentVars, outboundVars, sweepVars>>
    /\ close_task
    /\ close_task' = FALSE
    /\ message' = None
    /\ closed' = TRUE
    /\ closes' = CountClose(closes)
    /\ UNCHANGED <<now, source, iterator, buffer, index, last_triggered, lock, authors,
                   listeners, blacklist, gc_task, client, start, tasks, delete_task, deletes,
                   displayed, deleted, last, nav>>

\* _delete_message, spawned by _on_disable: the message is deleted, or the delete
\* fails with NotFoundError or ForbiddenError and is given up.
DeleteMessage ==
    /\ UNCHANGED <<componentVars, outboundVars, sweepVars>>
    /\ delete_task
    /\ delete_task' = FALSE
    /\ deleted' \in {TRUE, deleted}
    /\ UNCHANGED <<now, source, handlerVars, authors, listeners, blacklist, gc_task, client,
                   start, tasks, close_task, displayed, closed, deletes, closes, last, nav>>

\* Time passes.
Tick ==
    /\ UNCHANGED <<componentVars, outboundVars, sweepVars>>
    /\ now < MaxTime
    /\ now' = now + 1
    /\ UNCHANGED <<source, handlerVars, authors, listeners, blacklist, gc_task, client,
                   start, tasks, close_task, delete_task, deletes, displayed, deleted, closed, closes, last, nav>>

\* The start of the paginator and of the client.
Start ==
    \/ CreateMessage
    \/ CreateMessageEntry
    \/ CreateMessageOpen
    \/ AddHandler
    \/ ClientOpen
    \/ ClientSubscribe

\* Reactions of the users and with the keys given arrive.
Events(users, keys) ==
    \/ \E t \in Tasks, user \in users, key \in keys : Deliver(t, user, key)
    \/ \E t \in Tasks : AcquireLock(t)

\* Event handling under a running clock: reactions of an author and of another user,
\* with the keys of a callback that suspends, of the stop callback and of no
\* callback; the platform calls succeed.
Next ==
    \/ Start
    \/ Events(Users, {RIGHT_TRIANGLE, STOP_SQUARE, OTHER_EMOJI})
    \/ \E t \in Tasks : Seek(t)
    \/ \E t \in Tasks : EditOk(t)
    \/ Gc
    \/ Close
    \/ SpawnedClose
    \/ DeleteMessage
    \/ Tick

\* The paginator is built over the longest source, with or without authors.
InitEvents == Init /\ source = Pages

Spec == InitEvents /\ [][Next]_vars

\* The registry under every way it changes: the author's reactions with the keys of
\* a callback that suspends and of the stop callback, the sweep under a running
\* clock, remove_handler, and the close of the client.
NextRegistry ==
    \/ Start
    \/ Events({"u1"}, {RIGHT_TRIANGLE, STOP_SQUARE})
    \/ \E t \in Tasks : Seek(t)
    \/ \E t \in Tasks : EditOk(t)
    \/ Gc
    \/ SpawnedClose
    \/ DeleteMessage
    \/ Tick
    \/ RemoveHandler
    \/ ClientClose
    \/ ClientCloseHandler
    \/ ClientCloseReturns

SpecRegistry == InitEvents /\ [][NextRegistry]_vars

\* The sweep of a client with handlers for two messages, and add_handler at any of
\* its suspensions.
NextSweep ==
    \/ \E id \in Ids, handler \in Handlers : AddHandlerFor(id, handler)
    \/ GcWakes
    \/ GcResumes

SpecSweep == InitEvents /\ [][NextSweep]_vars

\* The sweep is a task of its own that sleeps five seconds between its rounds: while
\* an expired handler is registered, the round that removes it comes.
SpecLive == Spec /\ WF_vars(Gc)

\* Navigation: the author's reactions with the navigation keys, the platform's
\* edits may fail, the owner may close the paginator; the clock stands still.
NextNav ==
    \/ Start
    \/ Events({"u1"}, triggers \ {STOP_SQUARE})
    \/ \E t \in Tasks : Seek(t)
    \/ \E t \in Tasks : Drain(t)
    \/ \E t \in Tasks : EditOk(t)
    \/ \E t \in Tasks : EditFails(t)
    \/ \E t \in Tasks : EditRetries(t)
    \/ \E t \in Tasks : Backoff(t)
    \/ Close

\* The paginator is built over a source of any length, with u1 as its author.
InitNav == Init /\ authors = {"u1"}

SpecNav == InitNav /\ [][NextNav]_vars

\* The paginator's retried calls: create_message with the reactions open adds,
\* under every outcome of every attempt; then the owner's close, with or without
\* the removal of the reactions, and the author's steps forward in between.
NextOutbound ==
    \/ CreateMessage
    \/ CreateMessageEntry
    \/ \E outcome \in Outcomes, wait \in Waits : CreateMessageTry(outcome, wait)
    \/ \E outcome \in Outcomes, wait \in Waits : AddReaction(outcome, wait)
    \/ AddHandler
    \/ ClientOpen
    \/ ClientSubscribe
    \/ Events({"u1"}, {RIGHT_TRIANGLE})
    \/ \E t \in Tasks : Seek(t)
    \/ \E t \in Tasks : EditOk(t)
    \/ Close
    \/ CloseRemoving
    \/ \E outcome \in Outcomes, wait \in Waits : RemoveReaction(outcome, wait)

SpecOutbound == InitNav /\ [][NextOutbound]_vars

\* ------------------------------------------------------- the Context

\* The call ends and leaves `async with self._response_lock`.
Finish(o, c, result) ==
    /\ calls' = [calls EXCEPT ![o] = [c EXCEPT !.pc = "done", !.result = result]]
    /\ response_lock' = NoCall

\* The call awaits a call to the platform inside `async with self._response_lock`.
Await(o, c, route) ==
    /\ calls' = [calls EXCEPT ![o] = [c EXCEPT !.pc = "platform", !.route = route]]
    /\ response_lock' = o

\* self._response_future.set_result(...): a future that has a result already raises
\* InvalidStateError.
SetResult(o, c, payload) ==
    IF response_future = "pending"
        THEN response_future' = payload /\ Finish(o, [c EXCEPT !.route = payload], "ok")
        ELSE response_future' = response_future /\ Finish(o, c, "InvalidStateError")

\* Context.defer, entered with the lock
Defer(o, c) ==
    /\ UNCHANGED <<has_responded, last_response_id>>
    /\ IF has_been_deferred
        THEN /\ UNCHANGED <<has_been_deferred, response_future, platform, changed>>
             /\ Finish(o, c, "RuntimeError")
        ELSE /\ has_been_deferred' = TRUE
             /\ changed' = [kind |-> c.kind, locked |-> TRUE]
             /\ IF response_future # NoFuture
                 THEN /\ platform' = platform
                      /\ SetResult(o, c, "deferred")
                 ELSE /\ response_future' = response_future
                      /\ platform' = [platform EXCEPT !.deferred = @ + 1]
                      /\ Await(o, c, "deferred")

\* Context._create_initial_response, which its callers enter with the lock
CreateInitialResponse(o, c) ==
    /\ UNCHANGED <<has_been_deferred, last_response_id>>
    /\ IF has_responded \/ has_been_deferred
        THEN /\ UNCHANGED <<has_responded, response_future, platform, changed>>
             /\ Finish(o, c, "RuntimeError")
        ELSE /\ has_responded' = TRUE
             /\ changed' = [kind |-> c.kind, locked |-> TRUE]
             /\ IF response_future = NoFuture
                 THEN /\ response_future' = response_future
                      /\ platform' = [platform EXCEPT !.initial = @ + 1]
                      /\ Await(o, c, "message")
                 ELSE /\ platform' = platform
                      /\ IF c.valid
                          THEN SetResult(o, c, "message")
                          ELSE \* component and components, or embed and embeds
                               /\ response_future' = response_future
                               /\ Finish(o, c, "ValueError")

\* Context.create_followup, entered with the lock, up to its await of execute
CreateFollowup(o, c) ==
    /\ UNCHANGED <<has_responded, has_been_deferred, last_response_id, response_future,
                   changed>>
    /\ platform' = [platform EXCEPT !.followup = @ + 1]
    /\ Await(o, c, "followup")

\* Respond without its routing: it always creates the initial response.
RespondAlwaysCreates(o, c) == CreateInitialResponse(o, c)

\* Context.respond, entered with the lock, up to its first await
Respond(o, c) ==
    IF has_responded
        THEN CreateFollowup(o, c)
    ELSE IF has_been_deferred
        THEN /\ UNCHANGED <<has_responded, has_been_deferred, last_response_id,
                            response_future, changed>>
             /\ platform' = [platform EXCEPT !.edit = @ + 1]
             /\ Await(o, c, "edit")
    ELSE CreateInitialResponse(o, c)

\* Context.edit_initial_response up to its await of the platform's edit: it takes
\* no lock.
EditInitialResponse(o, c) ==
    /\ UNCHANGED <<has_responded, has_been_deferred, last_response_id, response_future,
                   response_lock, changed>>
    /\ platform' = [platform EXCEPT !.edit = @ + 1]
    /\ calls' = [calls EXCEPT ![o] = [c EXCEPT !.pc = "platform", !.route = "edit"]]

\* The body of a call that takes the lock, entered with the lock.
LockedBody(o, c) ==
    CASE c.kind = "defer" -> Defer(o, c)
      [] c.kind = "create_initial_response" -> CreateInitialResponse(o, c)
      [] c.kind = "respond" -> Respond(o, c)
      [] c.kind = "create_followup" -> CreateFollowup(o, c)

\* The listener calls an operation of its Context; `valid` says whether the
\* arguments name at most one of component and components, of embed and embeds.
CallWith(o, kind, valid) ==
    /\ listener = "running"
    /\ calls[o].pc = "new"
    /\ UNCHANGED <<reactionVars, clientVars>>
    /\ LET c == [calls[o] EXCEPT !.kind = kind, !.valid = valid]
       IN  IF kind = "edit_initial_response"
               THEN EditInitialResponse(o, c)
           ELSE IF response_lock # NoCall
               THEN /\ calls' = [calls EXCEPT ![o] = [c EXCEPT !.pc = "wait"]]
                    /\ UNCHANGED <<has_responded, has_been_deferred, last_response_id,
                                   response_future, response_lock, platform, changed>>
           ELSE LockedBody(o, c)

\* The listener calls an operation of its Context with arguments that are valid.
Call(o, kind) == CallWith(o, kind, TRUE)

\* async with self._response_lock: a waiting call gets the lock.
AcquireResponseLock(o) ==
    /\ calls[o].pc = "wait"
    /\ response_lock = NoCall
    /\ UNCHANGED <<reactionVars, clientVars>>
    /\ LockedBody(o, calls[o])

\* The platform call a call awaits returns, and the call runs to its end.
PlatformReturns(o) ==
    /\ calls[o].pc = "platform"
    /\ UNCHANGED <<reactionVars, clientVars, has_been_deferred, response_future, platform>>
    /\ LET c == calls[o]
       IN  IF c.kind = "edit_initial_response"
               THEN \* self._has_responded = True, without the lock
                    /\ has_responded' = TRUE
                    /\ changed' = [kind |-> c.kind, locked |-> FALSE]
                    /\ calls' = [calls EXCEPT ![o] = [c EXCEPT !.pc = "done", !.result = "ok"]]
                    /\ UNCHANGED <<last_response_id, response_lock>>
           ELSE IF c.route = "edit"
               THEN \* respond: edit_initial_response sets self._has_responded = True
                    /\ has_responded' = TRUE
                    /\ changed' = [kind |-> c.kind, locked |-> TRUE]
                    /\ last_response_id' = last_response_id
                    /\ Finish(o, c, "ok")
           ELSE IF c.route = "followup"
               THEN \* self._last_response_id = message.id
                    /\ last_response_id' = o
                    /\ changed' = [kind |-> c.kind, locked |-> TRUE]
                    /\ has_responded' = has_responded
                    /\ Finish(o, c, "ok")
           ELSE /\ UNCHANGED <<has_responded, last_response_id, changed>>
                /\ Finish(o, c, "ok")

\* The platform call a call awaits raises: the error leaves the call, and the
\* lock if the call holds it.
PlatformRaises(o) ==
    /\ calls[o].pc = "platform"
    /\ UNCHANGED <<reactionVars, clientVars, has_responded, has_been_deferred,
                   last_response_id, response_future, platform, changed>>
    /\ IF calls[o].kind = "edit_initial_response"
        THEN /\ calls' = [calls EXCEPT ![o] = [@ EXCEPT !.pc = "done", !.result = "HTTPError"]]
             /\ response_lock' = response_lock
        ELSE Finish(o, calls[o], "HTTPError")

\* -------------------------------------------------- the component client

\* ComponentClient.add_executor
AddExecutor ==
    /\ Msg \notin executors
    /\ executors' = executors \cup {Msg}
    /\ UNCHANGED <<reactionVars, contextVars, execution, request, listener, listener2>>

\* ComponentExecutor.execute: the Context is made and the listener of the
\* interaction's custom id is spawned with it; an id without a callback is a KeyError.
ExecuteListener(custom_id) ==
    listener' = IF custom_id \in id_to_callback THEN "running" ELSE "KeyError"

\* ComponentClient.on_rest_request. For a registered executor it spawns
\* execution_task and then unpacks the coroutine that asyncio.wait(...) returns
\* without awaiting it, a TypeError.
OnRestRequest(custom_id) ==
    /\ request.path = "none"
    /\ UNCHANGED <<reactionVars, executors, listener, listener2, has_responded, has_been_deferred,
                   last_response_id, response_lock, calls, platform, changed>>
    /\ IF Msg \in executors
        THEN /\ response_future' = "pending"
             /\ execution' = [pc |-> "pending", custom_id |-> custom_id]
             /\ request' = [path |-> "rest", registered |-> TRUE, result |-> "TypeError"]
        ELSE /\ UNCHANGED <<response_future, execution>>
             /\ request' = [path |-> "rest", registered |-> FALSE, result |-> "LookupError"]

\* on_rest_request's execution_task runs: executor.execute(interaction, future=future)
Execute ==
    /\ execution.pc = "pending"
    /\ execution' = [execution EXCEPT !.pc = "done"]
    /\ ExecuteListener(execution.custom_id)
    /\ UNCHANGED <<reactionVars, contextVars, executors, request, listener2>>

\* ComponentClient.on_gateway_event: executor.execute(interaction) without a future
OnGatewayEvent(custom_id) ==
    /\ request.path = "none"
    /\ UNCHANGED <<reactionVars, contextVars, executors, execution, listener2>>
    /\ IF Msg \in executors
        THEN /\ ExecuteListener(custom_id)
             /\ request' =
                    [path |-> "gateway", registered |-> TRUE,
                     result |-> IF custom_id \in id_to_callback THEN "ok" ELSE "KeyError"]
        ELSE /\ listener' = listener
             /\ request' = [path |-> "gateway", registered |-> FALSE, result |-> "ok"]

\* ComponentClient.on_gateway_event for a second interaction for the message, with
\* the custom id of a callback: execute makes a Context of its own for it and
\* spawns the listener.
OnGatewayEventAgain ==
    /\ request.path # "none"
    /\ listener2 = "none"
    /\ Msg \in executors
    /\ listener2' = "spawned"
    /\ UNCHANGED <<reactionVars, contextVars, executors, execution, request, listener>>

\* The event loop starts the listener task of the second interaction.
Listener2Starts ==
    /\ listener2 = "spawned"
    /\ listener2' = "running"
    /\ UNCHANGED <<reactionVars, contextVars, executors, execution, request, listener>>

\* The listener of the second interaction returns.
Listener2Returns ==
    /\ listener2 = "running"
    /\ listener2' = "done"
    /\ UNCHANGED <<reactionVars, contextVars, executors, execution, request, listener>>

\* The listener returns, with none of its calls on the Context still running.
ListenerReturns ==
    /\ listener = "running"
    /\ \A o \in Calls : calls[o].pc \in {"new", "done"}
    /\ listener' = "done"
    /\ UNCHANGED <<reactionVars, contextVars, executors, execution, request, listener2>>

\* One interaction for the message is delivered, over REST or the gateway, to a
\* client with or without an executor for it, and its listener calls the
\* operations of its Context in any order and interleaving.
NextComponents ==
    \/ AddExecutor
    \/ \E custom_id \in CustomIds : OnRestRequest(custom_id)
    \/ \E custom_id \in CustomIds : OnGatewayEvent(custom_id)
    \/ Execute
    \/ \E o \in Calls, kind \in Kinds : Call(o, kind)
    \/ \E o \in Calls : AcquireResponseLock(o)
    \/ \E o \in Calls : PlatformReturns(o)
    \/ ListenerReturns

\* The paginator stays as it was built.
InitComponentsOnly == InitEvents /\ authors = {}

SpecComponents == InitComponentsOnly /\ [][NextComponents]_vars

\* Interactions under failure and in pairs: the listener's calls carry valid or
\* invalid arguments, the platform answers or raises, and a second interaction for
\* the message arrives while the first one's listener is at work.
NextInteractions ==
    \/ AddExecutor
    \/ \E custom_id \in CustomIds : OnRestRequest(custom_id)
    \/ \E custom_id \in CustomIds : OnGatewayEvent(custom_id)
    \/ Execute
    \/ \E o \in Calls, kind \in Kinds, valid \in BOOLEAN : CallWith(o, kind, valid)
    \/ \E o \in Calls : AcquireResponseLock(o)
    \/ \E o \in Calls : PlatformReturns(o)
    \/ \E o \in Calls : PlatformRaises(o)
    \/ ListenerReturns
    \/ OnGatewayEventAgain
    \/ Listener2Starts
    \/ Listener2Returns

SpecInteractions == InitComponentsOnly /\ [][NextInteractions]_vars

\* Every task of the component client that can run does run.
SpecComponentsLive == SpecComponents /\ WF_vars(NextComponents)

\* Dispatch in both clients: reactions on the paginator's message arrive at the
\* reaction client before and after the paginator is registered in it, and an
\* interaction for the message arrives at the component client with or without
\* an executor for it.
NextDispatch ==
    \/ Start
    \/ \E t \in Tasks, user \in Users, key \in {STOP_SQUARE, OTHER_EMOJI} :
            Deliver(t, user, key)
    \/ DeleteMessage
    \/ AddExecutor
    \/ \E custom_id \in CustomIds : OnRestRequest(custom_id)
    \/ \E custom_id \in CustomIds : OnGatewayEvent(custom_id)
    \/ Execute
    \/ ListenerReturns

SpecDispatch == InitEvents /\ [][NextDispatch]_vars

\* ------------------------------------------------------------ the claims

\* The callback of task t's event is running (it is suspended at an await).
InCallback(t) == tasks[t].pc \in {"seek", "drain", "edit", "backoff"}

\* The user is not allowed to trigger the handler.
Unauthorized(user) == authors # {} /\ user \notin authors

\* The step from the current state started the callback of task t's event
\* (user, key): it is suspended, or it has run to its end.
Started(t, user, key) ==
    \/ tasks'[t].pc # "idle" /\ tasks'[t].cb # "none"
    \/ /\ tasks'[t].pc = "idle"
       /\ last'.cb # "none" /\ last'.user = user /\ last'.key = key

\* C1: at most one callback of the handler is executing at any time, and it is the
\* one of the task that holds the handler's lock.
C1_OneCallbackAtATime ==
    \A t1, t2 \in Tasks :
        InCallback(t1) => lock = t1 /\ (InCallback(t2) => t1 = t2)

\* C1's case: a callback is running while another event waits for the lock.
C1_Witness ==
    \E t1, t2 \in Tasks : InCallback(t1) /\ tasks[t2].pc = "wait"

\* C2: a callback only ever starts while the handler is bound, also for the events
\* that were waiting for the lock when the handler became unbound.
C2_CallbackStartsBound ==
    /\ \A t \in Tasks : tasks[t].cb # "unbound"
    /\ last.cb # "unbound"

\* C3: an event that begins after a close() of the handler has completed never
\* invokes a callback, whatever its user and key.
C3_NoCallbackAfterClose ==
    /\ \A t \in Tasks : tasks[t].after_close => tasks[t].pc = "idle" /\ tasks[t].cb = "none"
    /\ last.after_close => last.cb = "none" /\ last.result \notin {"ok", "HandlerClosed"}

\* C3's case: the reaction of an author with the key of a callback reached the
\* registered, not expired handler after a close() and was ignored.
C3_Witness ==
    /\ last.after_close /\ last.user = "u1" /\ last.key = RIGHT_TRIANGLE
    /\ last.result = "ignored"
    /\ Msg \in listeners /\ ~Expired

\* C4: with a non-empty set of authors, an event of a user outside it never invokes
\* a callback and never changes last_triggered; with an empty set, the event of any
\* user (that reaches the bound, not expired handler with the key of a callback) is
\* accepted: its callback starts, or it waits for the lock.
C4_Authors ==
    [][\A t \in Tasks, user \in Users, key \in Emojis :
        Deliver(t, user, key) =>
            /\ Unauthorized(user) =>
                /\ ~Started(t, user, key)
                /\ tasks'[t].pc = "idle"
                /\ last_triggered' = last_triggered
            /\ ( /\ authors = {}
                 /\ user \notin blacklist /\ Msg \in listeners
                 /\ ~Expired /\ message # None /\ key \in callbacks ) =>
                    IF Locked THEN tasks'[t].pc = "wait" ELSE Started(t, user, key)
      ]_vars

\* C4's case: the reaction of a user who is no author, with the key of a callback,
\* reached the bound handler and was ignored.
C4_Witness ==
    /\ authors = {"u1"}
    /\ last.user = "u2" /\ last.key = RIGHT_TRIANGLE /\ last.result = "ignored"
    /\ ~last.after_close /\ message # None /\ Msg \in listeners

\* C5: an event that reaches the registered handler when it is expired fails with
\* HandlerClosed, runs no callback, and the client removes the handler's entry.
C5_ExpiredHandlerClosed ==
    [][\A t \in Tasks, user \in Users, key \in Emojis :
        (Deliver(t, user, key) /\ user \notin blacklist /\ Msg \in listeners /\ Expired) =>
            /\ ~Started(t, user, key)
            /\ last'.result = "HandlerClosed"
            /\ Msg \notin listeners'
      ]_vars

\* C6: once the registered handler is expired it stays expired, and nothing advances
\* last_triggered, until its entry is removed.
C6_ExpiryMonotonic ==
    [][(Expired /\ Msg \in listeners /\ Msg \in listeners') =>
            Expired' /\ last_triggered' = last_triggered
      ]_vars

\* The paginator has sent its message (create_message got as far as open()).
Started0 == start \in {"opened", "added"}

\* C7: started over the pages p0..pk and showing p0, after m steps forward (m <= k)
\* followed by n steps back (n <= m) the displayed content is the page p(m-n).
C7_ForwardThenBack ==
    (Started0 /\ nav.shape # "other") => displayed = source[nav.page + 1]

\* C8: whenever the buffer holds at least one page, the cursor is a valid index
\* into it: 0 <= index < len(buffer).
C8_CursorInBuffer ==
    Len(buffer) >= 1 => 0 <= index /\ index < Len(buffer)

\* The pages a jump-to-last in progress has pulled from the iterator and not yet
\* appended to the buffer.
Pulled ==
    IF \E t \in Tasks : tasks[t].pc = "drain"
        THEN tasks[CHOOSE t \in Tasks : tasks[t].pc = "drain"].pulled
        ELSE <<>>

\* C9 as claimed: in every reachable state the buffer is exactly the prefix of the
\* source consumed so far.
C9_BufferIsConsumedPrefix ==
    buffer = SubSeq(source, 1, iterator)

\* C9 as amended: the buffer followed by the pages a jump-to-last in progress holds
\* is exactly the prefix of the source consumed so far; the iterator only moves
\* forward and the buffer only grows by appending.
C9_BufferThenPulledIsConsumedPrefix ==
    /\ [](buffer \o Pulled = SubSeq(source, 1, iterator))
    /\ [][ /\ iterator' >= iterator
           /\ Len(buffer') >= Len(buffer)
           /\ SubSeq(buffer', 1, Len(buffer)) = buffer
         ]_vars

\* C9's case: a jump-to-last over a buffer that holds pages has pulled further
\* pages from the iterator.
C9_Witness ==
    \E t \in Tasks :
        tasks[t].pc = "drain" /\ Len(tasks[t].pulled) >= 1 /\ Len(buffer) >= 1

\* C10: when the callback of a jump-to-last ends, the source is fully drained into
\* the buffer and the cursor is len(buffer) - 1; when it ends with its edit gone
\* through, the page displayed is the final page of the source.
C10_JumpToLast ==
    [][\A t \in Tasks :
        ( /\ tasks[t].key = RIGHT_DOUBLE_TRIANGLE
          /\ InCallback(t)
          /\ tasks'[t].pc = "idle" ) =>
            /\ iterator' = Len(source)
            /\ buffer' = source
            /\ index' = Len(buffer') - 1
            /\ (tasks[t].pc = "edit" /\ last'.result = "ok") =>
                    displayed' = source[Len(source)]
      ]_vars

\* C10's case: a jump-to-last over the longest source has ended with its edit.
C10_Witness ==
    /\ last.key = RIGHT_DOUBLE_TRIANGLE /\ last.result = "ok" /\ last.cb = "bound"
    /\ Len(source) = NPages
    /\ iterator = Len(source) /\ index = Len(buffer) - 1
    /\ displayed = source[Len(source)]
    /\ message # None

\* The step from the current state runs the stop callback of task t on the bound,
\* registered handler.
StopRuns(t) ==
    /\ \/ \E user \in Users :
            /\ Deliver(t, user, STOP_SQUARE)
            /\ user \notin blacklist /\ ~Expired /\ ~Rejected(user) /\ ~Locked
       \/ AcquireLock(t) /\ tasks[t].key = STOP_SQUARE
    /\ message # None
    /\ Msg \in listeners

\* C11: when the stop callback runs for an authorized user on the bound, registered
\* paginator, the paginator is unbound in that step, before the deletion it spawns has
\* run; that one deletion of the message is the only one ever spawned; HandlerClosed
\* is signalled and the entry is gone from the registry when the event is over.
C11_Stop ==
    /\ [][\A t \in Tasks :
            StopRuns(t) =>
                /\ message' = None
                /\ delete_task' /\ deletes' = deletes + 1 /\ deleted' = deleted
                /\ tasks'[t].pc = "idle"
                /\ last'.result = "HandlerClosed" /\ last'.key = STOP_SQUARE
                /\ Msg \notin listeners'
         ]_vars
    /\ [](deletes <= 1 /\ (deleted => message = None /\ deletes = 1))

\* C11's case: the author's stop ended with HandlerClosed and the deletion has run.
C11_Witness ==
    /\ last.key = STOP_SQUARE /\ last.user = "u1" /\ last.result = "HandlerClosed"
    /\ last.cb = "bound"
    /\ authors = {"u1"}
    /\ deletes = 1 /\ deleted /\ ~delete_task
    /\ message = None /\ Msg \notin listeners

\* C19: the sweep and on_reaction_event together call close() at most once for the
\* handler.
C19_ClosedOnce ==
    closes <= 1

\* The handler is registered in the open client, it is expired, and no event
\* delivery is running or waiting.
ExpiredAndIdle ==
    /\ client = "open" /\ gc_task
    /\ Msg \in listeners
    /\ Expired
    /\ \A t \in Tasks : tasks[t].pc = "idle"

\* C20: a handler that is expired while registered in the open client, with no
\* accepted event in progress, is eventually removed from the registry and closed.
C20_ExpiredIsSwept ==
    ExpiredAndIdle ~> (Msg \notin listeners /\ message = None /\ closed)

\* C20's case: the sweep removed and closed the expired handler; no event had
\* reached it while it was expired.
C20_Witness ==
    /\ Expired /\ start = "added" /\ Msg \notin listeners
    /\ closes = 1 /\ ~close_task /\ closed /\ message = None
    /\ last.result \notin {"RuntimeError", "HandlerClosed"}

\* C12: a REST request for a registered executor whose listener resolved the
\* response future has returned exactly the payload the future holds.
C12_RestReturnsPayload ==
    (request.path = "rest" /\ request.registered
        /\ response_future \in {"deferred", "message"}) =>
            request.result = response_future

\* C13: a REST request for a registered executor whose listener returned without
\* resolving the response future has ended with the RuntimeError of a finished
\* execution.
C13_RestNoResponse ==
    (request.path = "rest" /\ request.registered
        /\ listener = "done" /\ response_future = "pending") =>
            request.result = "RuntimeError"

\* C14: a reaction on a message without a handler ends without an error, runs no
\* callback and changes neither the registry nor the handler; a REST interaction
\* for a message without an executor ends with LookupError and spawns nothing.
C14_Unregistered ==
    [][ /\ \A t \in Tasks, user \in Users, key \in Emojis :
            (Deliver(t, user, key) /\ Msg \notin listeners) =>
                /\ ~Started(t, user, key)
                /\ tasks'[t].pc = "idle"
                /\ last'.result \in {"no handler", "blacklisted"}
                /\ listeners' = listeners
                /\ UNCHANGED <<handlerVars, close_task, delete_task, displayed>>
        /\ \A custom_id \in CustomIds :
            (OnRestRequest(custom_id) /\ Msg \notin executors) =>
                /\ request'.result = "LookupError"
                /\ UNCHANGED <<executors, execution, listener, contextVars>>
      ]_vars

\* C14's case: both clients were sent an event for the message while nothing was
\* registered for it; the paginator was bound and the reaction was the author's stop.
C14_Witness ==
    /\ last.result = "no handler" /\ last.key = STOP_SQUARE /\ last.user = "u1"
    /\ start = "opened" /\ message = Msg
    /\ request.path = "rest" /\ request.result = "LookupError"
    /\ executors = {}

\* The initial responses produced so far: the create-initial-response calls made to
\* the platform, of either type, and the resolution of the response future.
InitialResponses ==
    platform.initial + platform.deferred
        + (IF response_future \in {"deferred", "message"} THEN 1 ELSE 0)

\* C15: at most one initial response is ever produced on a Context, and a deferral
\* and a directly created response never both occur.
C15_OneInitialResponse ==
    /\ InitialResponses <= 1
    /\ ~(has_been_deferred /\ platform.initial > 0)
    /\ ~(platform.deferred > 0 /\ platform.initial > 0)

\* The step from the current state runs the body of call o, of the operation
\* `kind`, from its start inside the lock.
Enters(o, kind) ==
    \/ Call(o, kind) /\ (kind = "edit_initial_response" \/ response_lock = NoCall)
    \/ AcquireResponseLock(o) /\ calls[o].kind = kind

\* C16: a defer or create_initial_response that runs when the Context is deferred or
\* has its initial response already fails with RuntimeError, makes no call to the
\* platform, does not resolve the future and leaves the flags as they are.
C16_SecondInitialFails ==
    [][\A o \in Calls, kind \in {"defer", "create_initial_response"} :
        (Enters(o, kind) /\ (has_been_deferred \/ has_responded)) =>
            /\ calls'[o].pc = "done" /\ calls'[o].result = "RuntimeError"
            /\ UNCHANGED <<platform, response_future, has_responded, has_been_deferred>>
      ]_vars

\* C17: every write of the Context's state (has_responded, has_been_deferred,
\* last_response_id) is made by a call that holds the response lock.
C17_ChangesUnderLock ==
    changed.locked

\* C18: respond routes by the state it finds inside the lock: a follow-up whose id
\* becomes last_response_id if has_responded, else an edit of the initial response
\* that sets has_responded if has_been_deferred, else the initial response; so when
\* respond is the only operation called, exactly the first respond produces the
\* initial response and every later one a follow-up.
C18_RespondRoutes ==
    /\ [][\A o \in Calls :
            /\ Enters(o, "respond") =>
                 calls'[o].route =
                    IF has_responded THEN "followup"
                    ELSE IF has_been_deferred THEN "edit"
                    ELSE "message"
            /\ (PlatformReturns(o) /\ calls[o].kind = "respond") =>
                 /\ calls[o].route = "followup" => last_response_id' = o
                 /\ calls[o].route = "edit" => has_responded'
                 /\ calls[o].route = "message" => has_responded
         ]_vars
    /\ []( (\A o \in Calls : calls[o].kind \in {"none", "respond"}) =>
            /\ Cardinality({o \in Calls : calls[o].route = "message"}) <= 1
            /\ \A o \in Calls : calls[o].route \in {"none", "message", "followup"}
            /\ (\E o \in Calls : calls[o].route = "followup") =>
                    (\E o \in Calls : calls[o].route = "message")
            /\ InitialResponses <= 1 )

\* C18's case: three responds on a deferred-free Context: one initial response and
\* two follow-ups, the last of which is the last response.
C18_Witness ==
    /\ \A o \in Calls : calls[o].kind = "respond" /\ calls[o].pc = "done"
    /\ Cardinality({o \in Calls : calls[o].route = "followup"}) = NCalls - 1
    /\ InitialResponses = 1
    /\ last_response_id \in Calls

\* C21: an executor registered in the component client is eventually removed from
\* its registry by a sweep of the client, however long the client runs.
C21_ExecutorIsSwept ==
    (Msg \in executors) ~> (Msg \notin executors)

\* C22: removal from the reaction client's registry is idempotent: remove_handler
\* for a message without a handler returns None without an error and leaves the
\* registry as it is, and so do the removal after HandlerClosed and the sweep.
C22_RemovalIdempotent ==
    [][Msg \notin listeners =>
            /\ listeners' = listeners \/ AddHandler
            /\ RemoveHandler => removal' = "None"
            /\ ~Gc
            /\ \A t \in Tasks :
                    (tasks[t].pc # "idle" /\ tasks'[t].pc = "idle") =>
                        last'.result \in {"ok", "HandlerClosed"}
      ]_vars

\* C23: when ReactionClient.close returns, the sweep is cancelled (and stays so),
\* the registry is empty, the handler that was registered is unbound, and the
\* callbacks in flight are where they were.
C23_ClientClose ==
    /\ [][(client # "stopped" /\ client' = "stopped") =>
            /\ listeners' = {}
            /\ client = "handlers closed" => message' = None /\ closed'
            /\ \A t \in Tasks : InCallback(t) => tasks'[t] = tasks[t] /\ lock' = lock
         ]_vars
    /\ [](client = "stopped" => ~ENABLED Gc)

\* C23's case: the client was closed with the handler registered and a callback in
\* flight; close has returned and the callback is still in flight.
C23_Witness ==
    /\ client = "stopped" /\ start = "added"
    /\ message = None /\ closed /\ closes = 0 /\ listeners = {}
    /\ \E t \in Tasks : InCallback(t)

\* C24: the reaction of a blacklisted user is dropped before the handler is looked
\* up: no callback starts and neither the handler nor the registry changes; and
\* while the client is subscribed the bot's own id is on the blacklist.
C24_Blacklist ==
    /\ [][\A t \in Tasks, user \in Users, key \in Emojis :
            (Deliver(t, user, key) /\ user \in blacklist) =>
                /\ ~Started(t, user, key)
                /\ tasks'[t].pc = "idle"
                /\ last'.result = "blacklisted"
                /\ UNCHANGED <<handlerVars, listeners, close_task, delete_task, displayed>>
         ]_vars
    /\ [](client = "open" => BotUser \in blacklist)

\* C24's case: the bot's own reaction with the key of a callback reached the client
\* while the bound handler was registered, and was dropped.
C24_Witness ==
    /\ last.user = BotUser /\ last.key = STOP_SQUARE /\ last.result = "blacklisted"
    /\ authors = {} /\ message = Msg /\ Msg \in listeners /\ ~Expired

\* C25: create_message over a source that yields no page has failed with ValueError
\* as soon as it is past its look for the first page; nothing was sent to the
\* platform and the paginator is unbound.
C25_NoPages ==
    (source = <<>> /\ start \notin {"new", "seek"}) =>
        /\ start = "failed" /\ fault = "ValueError"
        /\ message = None
        /\ displayed = NoPage
        /\ buffer = <<>>

\* C25's case: create_message over the empty source has failed.
C25_Witness ==
    source = <<>> /\ start = "failed" /\ iterator = 0

\* The keys of the steps back: previous and first.
BackKeys == {LEFT_TRIANGLE, LEFT_DOUBLE_TRIANGLE}

\* The step from the current state starts the callback of task t's event with `key`.
Runs(t, key) ==
    \/ Deliver(t, "u1", key) /\ Msg \in listeners /\ ~Rejected("u1") /\ ~Locked
    \/ AcquireLock(t) /\ tasks[t].key = key

\* C30: a step forward pulls nothing when the next index is in the buffer and
\* otherwise pulls exactly one page, which it appends, or finds the source exhausted
\* and leaves cursor and buffer as they are; a step back and a jump to first never
\* pull from the source and never change the buffer.
C30_SourceConsumption ==
    [][\A t \in Tasks :
        /\ Runs(t, RIGHT_TRIANGLE) =>
            /\ iterator' = iterator /\ buffer' = buffer
            /\ IF Len(buffer) > index + 1
                THEN index' = index + 1 /\ tasks'[t].pc # "seek"
                ELSE index' = index /\ tasks'[t].pc = "seek"
        /\ Seek(t) =>
            IF iterator < Len(source)
                THEN /\ iterator' = iterator + 1
                     /\ buffer' = Append(buffer, source[iterator + 1])
                     /\ index' = index + 1
                     /\ tasks'[t].pc # "seek"
                ELSE /\ UNCHANGED <<iterator, buffer, index>>
                     /\ tasks'[t].pc = "idle"
        /\ ( \/ \E key \in BackKeys : Runs(t, key)
             \/ tasks[t].key \in BackKeys /\ InCallback(t) ) =>
                UNCHANGED <<iterator, buffer>>
      ]_vars

\* C30's case: a step forward that found its page in the buffer has ended, with
\* pages of the source still not pulled.
C30_Witness ==
    /\ last.key = RIGHT_TRIANGLE /\ last.result = "ok"
    /\ Len(buffer) > index /\ index > 0
    /\ iterator < Len(source)
    /\ displayed = buffer[index + 1]

\* C26: in open, an add_reaction that fails with ForbiddenError ends open normally
\* with the paginator still bound, and one that fails with NotFoundError ends open
\* with that error and the paginator unbound.
C26_AttachFailures ==
    [][\A wait \in Waits :
        /\ AddReaction("ForbiddenError", wait) =>
                start' = "opened" /\ message' = Msg /\ fault' = fault
        /\ AddReaction("NotFoundError", wait) =>
                start' = "failed" /\ fault' = "NotFoundError" /\ message' = None
      ]_vars

\* C27: a rate limit whose retry_after is above max_backoff ends the retried call:
\* the error is raised to the caller and the call is not made again.
C27_LongWaitIsFatal ==
    [][\A wait \in Waits : wait > MaxBackoff =>
        /\ CreateMessageTry("RateLimitedError", wait) =>
                start' = "failed" /\ fault' = "RateLimitedError"
        /\ AddReaction("RateLimitedError", wait) =>
                start' = "failed" /\ fault' = "RateLimitedError"
        /\ RemoveReaction("RateLimitedError", wait) =>
                fault' = "RateLimitedError" /\ ~(close_pc' = "remove" /\ emoji' = emoji)
      ]_vars

\* C28: create_message and open make no more than max_retries attempts of a call,
\* and when the last of them fails with a server error or a rate limit they raise
\* that error to the caller.
C28_AttemptsBounded ==
    /\ [](retry <= MaxRetries)
    /\ [][\A outcome \in {"InternalServerError", "RateLimitedError"}, wait \in Waits :
            ((CreateMessageTry(outcome, wait) \/ AddReaction(outcome, wait))
                    /\ retry + 1 = MaxRetries) =>
                start' = "failed" /\ fault' = outcome
         ]_vars

\* create_message has given up after max_retries server errors.
C28_Witness ==
    /\ start = "failed"
    /\ retry = MaxRetries
    /\ fault = "InternalServerError"

\* C29: close raises nothing and leaves the paginator unbound; on an unbound
\* paginator it changes nothing, and the reactions are removed by one call at most.
C29_CloseIdempotent ==
    /\ [](removals <= 1)
    /\ [][(Close \/ CloseRemoving) =>
            /\ message' = None
            /\ fault' = fault
            /\ message = None =>
                    UNCHANGED <<handlerVars, source, authors, listeners, tasks, start,
                                displayed, deleted, deletes, retry, emoji, close_pc,
                                removals>>
         ]_vars

\* A close that removed the reactions is over and close has been called again.
C29_Witness ==
    /\ reclosed
    /\ removals = 1
    /\ close_pc = "done"

\* C31: an accepted event waits for the lock or starts its callback; an event that
\* got that far ends with its one callback run and the lock free, whether the
\* callback returned or raised; last_triggered is written only in the step in which
\* a callback returns, and then with the current time; the lock is never left held
\* by an event that is over.
C31_CallbackUnderLock ==
    /\ [](lock # NoTask => InCallback(lock))
    /\ [][ /\ \A t \in Tasks, user \in Users, key \in Emojis :
                ( /\ Deliver(t, user, key)
                  /\ user \notin blacklist /\ Msg \in listeners
                  /\ ~Expired /\ ~Rejected(user) /\ ~NoCallback(key) ) =>
                    IF Locked THEN tasks'[t].pc = "wait" ELSE Started(t, user, key)
           /\ \A t \in Tasks :
                (tasks[t].pc # "idle" /\ tasks'[t].pc = "idle") =>
                    /\ last'.cb # "none"
                    /\ last'.result \in {"ok", "HandlerClosed"}
                    /\ lock' = NoTask
                    /\ last_triggered' = IF last'.result = "ok" THEN now ELSE last_triggered
           /\ last_triggered' # last_triggered =>
                /\ last_triggered' = now
                /\ last'.result = "ok"
                /\ \E t \in Tasks : tasks[t].pc # "idle" /\ tasks'[t].pc = "idle"
         ]_vars

\* The stop callback of an accepted event raised while another event waited for the
\* lock, and the lock is free for it.
C31_Witness ==
    /\ last.result = "HandlerClosed" /\ last.cb = "bound"
    /\ lock = NoTask
    /\ \E t \in Tasks : tasks[t].pc = "wait"

\* C32: an interaction for a registered executor whose custom id has no callback is
\* ignored: execute spawns no listener and raises nothing, and on_gateway_event ends
\* without an error.
C32_UnknownIdIgnored ==
    [][\A custom_id \in CustomIds \ id_to_callback :
        /\ (OnGatewayEvent(custom_id) /\ Msg \in executors) =>
                request'.result = "ok" /\ listener' = listener
        /\ (Execute /\ execution.custom_id = custom_id) =>
                listener' = listener
      ]_vars

\* C33: while the listener of one interaction for the message is at work (it has
\* made a call on its Context and has not returned), the listener of a second
\* interaction for the message is not executing.
C33_ListenersSerialized ==
    ~ /\ listener = "running"
      /\ \E o \in Calls : calls[o].pc # "new"
      /\ listener2 = "running"

\* C34: when the listener of a REST interaction resolves the response future after
\* it has awaited a call to the platform, on_rest_request returns what the future
\* was resolved with.
C34_SuspendedListenerAnswers ==
    [][( /\ request.path = "rest" /\ request.registered
         /\ \E o \in Calls :
                calls[o].pc = "done" /\ calls[o].route \in {"followup", "edit"}
         /\ response_future = "pending"
         /\ response_future' # "pending" ) =>
            request'.result = response_future'
      ]_vars

\* C40: when the creation of the initial response fails, by an error of the
\* platform call or by the ValueError of arguments that are not valid, the Context
\* has not responded and its response future has no result.
C40_FailedInitialResponse ==
    [][\A o \in Calls :
        ( /\ calls[o].pc # "done" /\ calls'[o].pc = "done"
          /\ calls[o].kind \in {"create_initial_response", "respond"}
          /\ \/ calls'[o].result = "ValueError"
             \/ calls'[o].result = "HTTPError" /\ calls[o].route = "message" ) =>
            /\ ~has_responded'
            /\ response_future' \in {NoFuture, "pending"}
      ]_vars

\* The keys of the navigation callbacks.
NavKeys == triggers \ {STOP_SQUARE}

\* C35: when a navigation callback of the bound paginator returns, the cursor is an
\* index of the buffer and the page displayed is the buffer's entry at the cursor.
C35_DisplayedIsCursor ==
    [][\A t \in Tasks, key \in NavKeys :
        ( /\ Runs(t, key) \/ (InCallback(t) /\ tasks[t].key = key)
          /\ tasks'[t].pc = "idle"
          /\ last'.result = "ok"
          /\ message' # None ) =>
            /\ index' < Len(buffer')
            /\ displayed' = Entry(buffer', index')
      ]_vars

\* C36: when the callback of a jump to first returns on the bound paginator, the
\* cursor is 0.
C36_FirstResetsCursor ==
    [][\A t \in Tasks :
        ( /\ Runs(t, LEFT_DOUBLE_TRIANGLE)
             \/ (InCallback(t) /\ tasks[t].key = LEFT_DOUBLE_TRIANGLE)
          /\ tasks'[t].pc = "idle"
          /\ last'.result = "ok"
          /\ message' # None ) =>
            index' = 0
      ]_vars

\* C38: before open() and after close() has returned, the client is closed
\* (is_closed) and an open() starts the sweep and goes on to subscribe.
C38_Lifecycle ==
    client \in {"closed", "stopped"} => IsClosed /\ ENABLED ClientOpen

\* C39: when a handler's entry is removed because the handling of an event raised
\* HandlerClosed, the handler is unbound.
C39_EvictedIsUnbound ==
    [][\A t \in Tasks :
        ( /\ tasks'[t].pc = "idle"
          /\ last'.result = "HandlerClosed"
          /\ Msg \in listeners /\ Msg \notin listeners' ) =>
            message' = None
      ]_vars

\* C37: the sweep removes an entry only when the handler registered under the id
\* at that moment is expired.
C37_SweepRemovesExpired ==
    [][\A id \in Ids :
        (entries[id] # None /\ entries'[id] = None) => entries[id] \in ExpiredHandlers
      ]_vars

====
